---- MODULE Spec2Model ----
(***************************************************************************)
(* Verification model of lib/processing.h: pull streams (DataStream), the *)
(* in-memory source, the filter / transform / split adapters, the eager    *)
(* aggregate-by-key and join stages, and the collect sink (AsVector).      *)
(*                                                                         *)
(* A stream is a sequence of stage descriptors: element 1 is the source    *)
(* and the last element is the outermost adapter.  A cursor on a stream of *)
(* depth n is a sequence of n per-stage iterator records, so cursor[k] is  *)
(* the iterator object the stage-k iterator class holds.                   *)
(***************************************************************************)
EXTENDS Integers, Sequences, FiniteSets, TLC

VARIABLES
    stream,     \* the stream handle the pipeline expression currently holds
    pipeline,   \* the stages of the pipeline expression, left to right
    applied,    \* how many of them operator| has applied so far
    right,      \* right-hand stream captured by a Join stage (<<>> if none)
    ub,         \* what this build does on undefined behaviour (stale value or crash)
    mm_front,   \* TRUE: unordered_multimap puts a new equal key first
    it,         \* cursor of the sink (stream->begin()), <<>> before begin
    env,        \* effects outside the cursors: closure state, call log, reads
    result,     \* the std::vector AsVector is filling
    input,      \* the caller's in-memory vector(s), kept for reference
    pc,         \* position of the pipeline expression / sink loop
    out,        \* the characters written to the std::ostream of Write
    parts       \* the two streams SplitExpected returned (<<>> if none)

vars == <<stream, pipeline, applied, right, ub, mm_front, it, env, result, input, pc,
          out, parts>>

\* ------------------------------------------------------------------ bounds
MaxLen == 3
MaxElems == 2
MaxTextLen == 3
MaxJoin == 2

\* ------------------------------------------------------------ value domains
Vals == {0, 1, 2}
Chars == {0, 1}
Keys == {1, 2}
Payloads == {7, 8}

SeqsUpTo(S, n) == UNION {[1..k -> S] : k \in 0..n}

Texts == SeqsUpTo(Chars, MaxTextLen)
KVs == [key : Keys, value : Payloads]

\* -------------------------------------------------- caller-supplied lambdas
Preds == {"even", "positive", "odd"}
Funcs == {"add10", "running"}
DelimStrings == {<<>>, <<0>>, <<0, 1>>}

ApplyPred(p, x) ==
    CASE p = "even" -> x % 2 = 0
      [] p = "positive" -> x > 0
      [] p = "odd" -> x % 2 # 0
      [] p = "nonempty" -> x # <<>>

\* A transform lambda: its return value and the state of what it captured
\* by reference ("running" is total += x; return total).
ApplyFunc(f, x, total) ==
    CASE f = "add10" -> [v |-> x + 10, total |-> total]
      [] f = "running" -> [v |-> total + x, total |-> total + x]

\* AggregateByKey lambdas: accumulate_func(value, accumulator&) and key_func.
ApplyAccumulate(a, x, acc) ==
    CASE a = "sum" -> acc + x
      [] a = "list" -> Append(acc, x)

ApplyKey(k, x) ==
    CASE k = "parity" -> x % 2
      [] k = "ident" -> x
      [] k = "field" -> x.key

\* total: what the "running" lambda captured; calls: the transform calls;
\* reads: the in-range vector reads; crashed / thrown: the program died of
\* undefined behaviour / an exception left an iterator; open, peak: the
\* std::ifstream objects holding an open file now, and the most at once.
EnvInit ==
    [total |-> 0, calls |-> <<>>, reads |-> <<>>, crashed |-> FALSE,
     thrown |-> FALSE, open |-> 0, peak |-> 0]

\* ------------------------------------------------------------ stage objects
VecStream(xs) == [kind |-> "vec", data |-> xs]
FilterStage(p) == [kind |-> "filter", predicate |-> p]
TransformStage(f) == [kind |-> "transform", transform_func |-> f]
SplitStage(d) == [kind |-> "split", delimiters_ |-> {d[i] : i \in DOMAIN d}]

AggStage(init, a, k) ==
    [kind |-> "agg", initial_value |-> init, accumulate_func |-> a, key_func |-> k]
\* The stream AggregateByKey returns: it keeps results_ only.
AggStream(res) == [kind |-> "aggregated", results_ |-> res]

\* Join(right) and Join(right, lkey, rkey): the right stream is captured.
JoinKVStage == [kind |-> "joinkv"]
JoinKeyStage(lk, rk) == [kind |-> "joinkey", lkey |-> lk, rkey |-> rk]
\* JoinedDataStream: the left stream it owns and the right_map it built.
JoinedStream(l, m) == [kind |-> "joined", left |-> l, right_map |-> m]

\* std::optional<Right>
None == <<>>
Some(v) == <<v>>
JoinRow(l, r) == [left_value |-> l, right_value |-> r]

\* ------------------------------------------------------- VectorIterator
VectorBegin == [index |-> 0, is_end |-> FALSE]
VectorEnd == [index |-> 0, is_end |-> TRUE]

\* (*data)[index]: no range check; out of range is undefined behaviour,
\* which this build resolves as ub says (a stale value, or a crash).
VectorDeref(d, cur, e) ==
    IF cur.index < Len(d.data)
    THEN [e |-> [e EXCEPT !.reads = Append(@, cur.index)],
          v |-> d.data[cur.index + 1]]
    ELSE IF ub.crash
         THEN [e |-> [e EXCEPT !.crashed = TRUE], v |-> ub.val]
         ELSE [e |-> [e EXCEPT !.reads = Append(@, cur.index)], v |-> ub.val]

VectorIncr(d, cur) ==
    [index |-> cur.index + 1,
     is_end |-> cur.is_end \/ (cur.index + 1 >= Len(d.data))]

\* The same with && for ||: different only when neither is at end.
VectorNotEqualBoth(a, b) == ~a.is_end /\ ~b.is_end

\* operator!=: !is_end || !other_ptr->is_end
VectorNotEqual(a, b) == ~a.is_end \/ ~b.is_end

\* ------------------------------------------------- DirStream::DirIterator
\* Dir(path, recursive): entries is what the directory iterator of the
\* stream yields, in its order; each entry is a regular file or not, and
\* carries the path operator* converts it to.
DirStream(es) == [kind |-> "dir", entries |-> es]

\* DirIterator(): is_end(true), the variant holds an end directory_iterator
DirEnd == [pos |-> 0, is_end |-> TRUE]

RECURSIVE DirSkip(_, _)
\* skip_non_regular_files: at the end of the directory is_end = true; a
\* regular file stops the loop; anything else is stepped over.
DirSkip(d, cur) ==
    IF cur.pos >= Len(d.entries)
    THEN [cur EXCEPT !.is_end = TRUE]
    ELSE IF d.entries[cur.pos + 1].regular
         THEN cur
         ELSE DirSkip(d, [cur EXCEPT !.pos = @ + 1])

\* DirIterator(path, recursive): is_end(false), then skip_non_regular_files
DirBegin(d) == DirSkip(d, [pos |-> 0, is_end |-> FALSE])

\* operator*: *it on the directory iterator, unchecked; on the end iterator
\* it is undefined behaviour (a crash, or some path).
DirDeref(d, cur, e) ==
    IF cur.is_end
    THEN IF ub.crash
         THEN [e |-> [e EXCEPT !.crashed = TRUE], v |-> ub.val]
         ELSE [e |-> e, v |-> ub.val]
    ELSE [e |-> e, v |-> d.entries[cur.pos + 1].path]

\* operator++: ++it, then skip_non_regular_files.  ++ on the end iterator
\* is undefined behaviour: a crash, or the library's filesystem_error
\* leaving the iterator as it was.
DirIncr(d, cur, e) ==
    IF cur.is_end
    THEN IF ub.crash
         THEN [cur |-> cur, e |-> [e EXCEPT !.crashed = TRUE]]
         ELSE [cur |-> cur, e |-> [e EXCEPT !.thrown = TRUE]]
    ELSE [cur |-> DirSkip(d, [cur EXCEPT !.pos = @ + 1]), e |-> e]

\* operator!=: two iterators at end are equal, one at end and one not are
\* different, and two not at end compare the variant's alternative, which
\* is the same for two iterators of one stream.
DirNotEqual(a, b) == a.is_end # b.is_end

\* -------------------------------------- AggregatedDataStream::Iterator
\* The same with an equality test: one step past the end is not the end.
AggIsEndExact(d, cur) == cur.index_ = Len(d.results_)

\* getIsEnd: index_ >= results_.size()
AggIsEnd(d, cur) == cur.index_ >= Len(d.results_)

\* ------------------------------------------------- generic cursor protocol
RECURSIVE IsEnd(_, _, _)
RECURSIVE Deref(_, _, _, _)
RECURSIVE Incr(_, _, _, _)
RECURSIVE NotEqual(_, _, _, _)
RECURSIVE SkipInvalid(_, _, _, _)
RECURSIVE SplitScan(_, _, _, _)
RECURSIVE SplitLoop(_, _, _, _)
RECURSIVE BeginCursor(_, _, _)
RECURSIVE EndCursor(_, _)
RECURSIVE AdvanceToNextValid(_, _, _, _)
RECURSIVE SkipToNext(_, _, _, _)
RECURSIVE OpenLoop(_, _, _, _)

\* ---------------------------------------- FileContentStream::FileIterator
\* OpenFiles(): the stream of the lines of the files a path stream names.
OpenFilesStage == [kind |-> "files"]

\* A path as the file system answers for it: whether std::ifstream can open
\* it, and the lines std::getline reads from it.  current_file is None or
\* the open stream: the file's lines and how many getline has consumed.
FileFresh == [current_file |-> None, current_line |-> <<>>, is_end |-> FALSE]
FileEnd == [current_file |-> None, current_line |-> <<>>, is_end |-> TRUE]

\* The same without closing: the stream object stays as it was.
KeepFile(f) == f

\* current_file.reset(): the std::ifstream is destroyed, its file closed.
ReleaseFile(f) == None

\* current_file.reset() on the cursor q
CloseFile(q, n) ==
    [c |-> [q.c EXCEPT ![n].current_file = ReleaseFile(@)],
     e |-> [q.e EXCEPT !.open =
                IF q.c[n].current_file # None /\ ReleaseFile(q.c[n].current_file) = None
                THEN @ - 1 ELSE @]]

\* current_file = std::make_unique<std::ifstream>(file_path) on an openable
\* path: the new stream is opened before the old one, if any, is destroyed.
OpenedEnv(cur, e) ==
    [e EXCEPT !.peak = IF e.open + 1 > @ THEN e.open + 1 ELSE @,
              !.open = IF cur.current_file # None THEN @ ELSE @ + 1]

\* open_next_file after the loop: current_file.reset(); is_end = true
FileAtEnd(q, n) == [c |-> [q.c EXCEPT ![n].is_end = TRUE], e |-> q.e]

OpenLoopFrom(s, q, n) == OpenLoop(s, q.c, q.e, n)

\* The std::ifstream just opened on path, is_end = false, and what the
\* first std::getline left in current_line ("" when it read nothing).
OpenedFile(q, n, path) ==
    [c |-> [q.c EXCEPT ![n] = [current_file |->
                                   Some([lines |-> path.lines,
                                         pos |-> IF path.lines = <<>> THEN 0 ELSE 1]),
                               current_line |->
                                   IF path.lines = <<>> THEN <<>> ELSE path.lines[1],
                               is_end |-> FALSE]],
     e |-> q.e]

\* current_file.reset(); ++*path_it; and the loop again
NextPath(s, q, n) == OpenLoopFrom(s, Incr(s, q.c, q.e, n - 1), n)

\* if (std::getline(...)) { if (!current_line.empty()) return; }
FirstLine(s, n, q) ==
    IF q.c[n].current_line # <<>> THEN q ELSE NextPath(s, CloseFile(q, n), n)

\* The loop body after a successful open, q being the cursor after the
\* first ++*path_it.
Opened(s, n, path, q) ==
    IF q.e.crashed THEN q ELSE FirstLine(s, n, OpenedFile(q, n, path))

\* The loop body for the path r: open it; if that failed,
\* current_file.reset(); ++*path_it and loop.
OpenPath(s, c, n, r) ==
    IF r.e.crashed
    THEN [c |-> c, e |-> r.e]
    ELSE IF r.v.openable
         THEN Opened(s, n, r.v, Incr(s, c, OpenedEnv(c[n], r.e), n - 1))
         ELSE NextPath(s, [c |-> c, e |-> r.e], n)

\* open_next_file, the loop
\* while (!path_it->getIsEnd() && *path_it != *path_end): path_end is a
\* null pointer in the iterator begin_ptr builds, so the comparison binds a
\* reference to null (undefined; the iterators' operator!= answer true
\* when the dynamic_cast of the null address gives null).
OpenLoop(s, c, e, n) ==
    IF e.crashed
    THEN [c |-> c, e |-> e]
    ELSE IF IsEnd(s, c, n - 1)
         THEN FileAtEnd(CloseFile([c |-> c, e |-> e], n), n)
         ELSE IF ub.crash
              THEN [c |-> c, e |-> [e EXCEPT !.crashed = TRUE]]
              ELSE OpenPath(s, c, n, Deref(s, c, e, n - 1))

\* FileIterator::open_next_file
OpenNextFile(s, q, n) ==
    OpenLoop(s, [q.c EXCEPT ![n].current_line = <<>>], q.e, n)

\* FileIterator(path_it): is_end(!path_it || *path_it == *path_end) with a
\* null path_end, then open_next_file()
FileBegin(s, q, n) ==
    IF q.e.crashed \/ ub.crash
    THEN [c |-> q.c, e |-> [q.e EXCEPT !.crashed = TRUE]]
    ELSE OpenNextFile(s, q, n)

\* FileIterator::operator++: a line read by getline is kept whatever it is.
FileIncr(s, c, e, n) ==
    IF c[n].is_end
    THEN [c |-> c, e |-> e]
    ELSE IF c[n].current_file = None
         THEN [c |-> c, e |-> [e EXCEPT !.crashed = TRUE]]
         ELSE IF c[n].current_file[1].pos < Len(c[n].current_file[1].lines)
              THEN [c |-> [c EXCEPT ![n].current_line =
                                        c[n].current_file[1].lines[c[n].current_file[1].pos + 1],
                                    ![n].current_file[1].pos = @ + 1],
                    e |-> e]
              ELSE OpenNextFile(s, CloseFile([c |-> c, e |-> e], n), n)

\* FileIterator::operator*: throws on an iterator at end or without a file
FileDeref(cur, e) ==
    IF cur.is_end \/ cur.current_file = None
    THEN [e |-> [e EXCEPT !.thrown = TRUE], v |-> <<>>]
    ELSE [e |-> e, v |-> cur.current_line]

\* FileIterator::operator!=: path_it of two iterators are different
\* unique_ptr objects, so only two iterators at end are equal.
FileNotEqual(a, b) == ~(a.is_end /\ b.is_end)

\* getIsEnd() of the stage-n iterator
IsEnd(s, c, n) ==
    CASE s[n].kind = "vec" -> c[n].is_end
      [] s[n].kind = "dir" -> c[n].is_end
      [] s[n].kind = "aggregated" -> AggIsEnd(s[n], c[n])
      [] s[n].kind = "joined" ->
            IsEnd(s[n].left, c[n].left_it, Len(s[n].left))
      [] s[n].kind = "filter" -> IsEnd(s, c, n - 1)
      [] s[n].kind = "transform" -> IsEnd(s, c, n - 1)
      [] s[n].kind = "split" -> IsEnd(s, c, n - 1) /\ c[n].current_line = <<>>
      [] s[n].kind = "files" -> c[n].is_end

\* The effects and value of one call of the transform function on the
\* upstream element r, made for source position idx.
TransformResult(a, r, idx) ==
    [e |-> [r.e EXCEPT !.total = a.total,
                       !.calls = Append(@, [idx |-> idx, arg |-> r.v])],
     v |-> a.v]

TransformCall(f, r, idx) == TransformResult(ApplyFunc(f, r.v, r.e.total), r, idx)

\* TransformedIterator::operator*: transform_func(*it)
TransformDeref(s, c, e, n) ==
    TransformCall(s[n].transform_func, Deref(s, c, e, n - 1), c[1].index)

\* AggregateByKeyDataStream::Iterator::operator*: results_[index_], unchecked
AggDeref(d, cur, e) ==
    IF cur.index_ < Len(d.results_)
    THEN [e |-> e, v |-> d.results_[cur.index_ + 1]]
    ELSE [e |-> [e EXCEPT !.crashed = ub.crash], v |-> ub.val]

\* The row for the left element r: {*left_it, nullopt} or
\* {*left_it, current_rights[current_right_index]} (unchecked).
JoinPair(cur, r) ==
    IF cur.current_rights = <<>>
    THEN [e |-> r.e, v |-> JoinRow(r.v, None)]
    ELSE IF cur.current_right_index < Len(cur.current_rights)
         THEN [e |-> r.e,
               v |-> JoinRow(r.v, Some(cur.current_rights[cur.current_right_index + 1]))]
         ELSE [e |-> [r.e EXCEPT !.crashed = ub.crash],
               v |-> JoinRow(r.v, Some(ub.val))]

\* JoinedDataStream::Iterator::operator*
JoinDeref(d, cur, e) ==
    JoinPair(cur, Deref(d.left, cur.left_it, e, Len(d.left)))

\* advanceToNextValid, the body of its loop for the left element r:
\* right_map.find((*left_it).key)
AdvanceLookup(s, c, n, r) ==
    IF r.e.crashed
    THEN [c |-> c, e |-> r.e]
    ELSE IF r.v.key \in DOMAIN s[n].right_map
         THEN [c |-> [c EXCEPT ![n].current_rights = s[n].right_map[r.v.key]],
               e |-> r.e]
         ELSE [c |-> [c EXCEPT ![n].current_rights = <<>>], e |-> r.e]

\* JoinedDataStream::Iterator::advanceToNextValid
AdvanceToNextValid(s, c, e, n) ==
    IF e.crashed \/ IsEnd(s[n].left, c[n].left_it, Len(s[n].left))
    THEN [c |-> c, e |-> e]
    ELSE AdvanceLookup(s, c, n,
                       Deref(s[n].left, c[n].left_it, e, Len(s[n].left)))

\* operator++ after ++left_it gave q: current_right_index = 0;
\* advanceToNextValid()
JoinLeftMoved(s, c, n, q) ==
    AdvanceToNextValid(s, [c EXCEPT ![n].left_it = q.c,
                                    ![n].current_right_index = 0], q.e, n)

\* JoinedDataStream::Iterator::operator++
JoinIncr(s, c, e, n) ==
    IF c[n].current_rights # <<>>
       /\ c[n].current_right_index + 1 < Len(c[n].current_rights)
    THEN [c |-> [c EXCEPT ![n].current_right_index = @ + 1], e |-> e]
    ELSE JoinLeftMoved(s, c, n,
                       Incr(s[n].left, c[n].left_it, e, Len(s[n].left)))

\* operator* of the stage-n iterator: [e |-> effects, v |-> value]
Deref(s, c, e, n) ==
    CASE s[n].kind = "vec" -> VectorDeref(s[n], c[n], e)
      [] s[n].kind = "dir" -> DirDeref(s[n], c[n], e)
      [] s[n].kind = "aggregated" -> AggDeref(s[n], c[n], e)
      [] s[n].kind = "joined" -> JoinDeref(s[n], c[n], e)
      [] s[n].kind = "filter" -> Deref(s, c, e, n - 1)
      [] s[n].kind = "transform" -> TransformDeref(s, c, e, n)
      [] s[n].kind = "split" -> [e |-> e, v |-> c[n].current_line]
      [] s[n].kind = "files" -> FileDeref(c[n], e)

SkipInvalidFrom(s, q, n) == SkipInvalid(s, q.c, q.e, n)

\* skipInvalid, the loop condition's second half for the element r:
\* !predicate(*it), and the ++it of the loop body
SkipInvalidTest(s, c, n, r) ==
    IF r.e.crashed \/ ApplyPred(s[n].predicate, r.v)
    THEN [c |-> c, e |-> r.e]
    ELSE SkipInvalidFrom(s, Incr(s, c, r.e, n - 1), n)

\* FilteredIterator::skipInvalid
SkipInvalid(s, c, e, n) ==
    IF e.crashed \/ IsEnd(s, c, n - 1)
    THEN [c |-> c, e |-> e]
    ELSE SkipInvalidTest(s, c, n, Deref(s, c, e, n - 1))

\* skipToNext without the emptiness test: it returns at every delimiter.
TokenReadyAlways(current_line) == TRUE

\* The test at a delimiter character: return the token only if there is one.
TokenReady(current_line) == current_line # <<>>

\* SplitIterator::skipToNext, the for loop over one upstream element:
\* [c, returned] where returned means the function returned from inside.
SplitScan(s, c, line, n) ==
    IF c[n].pos_in_line >= Len(line)
    THEN [c |-> c, returned |-> FALSE]
    ELSE IF line[c[n].pos_in_line + 1] \in s[n].delimiters_
         THEN IF TokenReady(c[n].current_line)
              THEN [c |-> [c EXCEPT ![n].pos_in_line = @ + 1], returned |-> TRUE]
              ELSE SplitScan(s, [c EXCEPT ![n].pos_in_line = @ + 1], line, n)
         ELSE SplitScan(s, [c EXCEPT ![n].current_line =
                                         Append(@, line[c[n].pos_in_line + 1]),
                                     ![n].pos_in_line = @ + 1],
                        line, n)

\* skipToNext after ++it gave q: pos_in_line = 0, and the token, if any,
\* is returned before the next element is read.
SplitAdvanced(s, q, n) ==
    IF q.c[n].current_line # <<>>
    THEN [c |-> [q.c EXCEPT ![n].pos_in_line = 0], e |-> q.e]
    ELSE SplitLoop(s, [q.c EXCEPT ![n].pos_in_line = 0], q.e, n)

\* skipToNext after the for loop over one element
SplitScanned(s, sc, e, n) ==
    IF sc.returned
    THEN [c |-> sc.c, e |-> e]
    ELSE SplitAdvanced(s, Incr(s, sc.c, e, n - 1), n)

\* skipToNext for the upstream element r: const std::string& line = *it
SplitLine(s, c, n, r) ==
    IF r.e.crashed
    THEN [c |-> c, e |-> r.e]
    ELSE SplitScanned(s, SplitScan(s, c, r.v, n), r.e, n)

\* SplitIterator::skipToNext, the while loop over upstream elements
SplitLoop(s, c, e, n) ==
    IF e.crashed \/ IsEnd(s, c, n - 1)
    THEN [c |-> c, e |-> e]
    ELSE SplitLine(s, c, n, Deref(s, c, e, n - 1))

\* SplitIterator::skipToNext
SkipToNext(s, c, e, n) ==
    SplitLoop(s, [c EXCEPT ![n].current_line = <<>>], e, n)

SkipToNextFrom(s, q, n) == SkipToNext(s, q.c, q.e, n)

DirMoved(c, n, r) == [c |-> [c EXCEPT ![n] = r.cur], e |-> r.e]

\* operator++ of the stage-n iterator: [c |-> cursor, e |-> effects]
Incr(s, c, e, n) ==
    CASE s[n].kind = "vec" -> [c |-> [c EXCEPT ![n] = VectorIncr(s[n], c[n])], e |-> e]
      [] s[n].kind = "dir" -> DirMoved(c, n, DirIncr(s[n], c[n], e))
      [] s[n].kind = "aggregated" ->
            [c |-> [c EXCEPT ![n].index_ = @ + 1], e |-> e]
      [] s[n].kind = "joined" -> JoinIncr(s, c, e, n)
      [] s[n].kind = "filter" -> SkipInvalidFrom(s, Incr(s, c, e, n - 1), n)
      [] s[n].kind = "transform" -> Incr(s, c, e, n - 1)
      [] s[n].kind = "split" -> SkipToNext(s, c, e, n)
      [] s[n].kind = "files" -> FileIncr(s, c, e, n)

\* operator!= of two stage-n iterators of the same stream
NotEqual(s, a, b, n) ==
    CASE s[n].kind = "vec" -> VectorNotEqual(a[n], b[n])
      [] s[n].kind = "dir" -> DirNotEqual(a[n], b[n])
      [] s[n].kind = "aggregated" -> a[n].index_ # b[n].index_
      [] s[n].kind = "joined" ->
            \/ NotEqual(s[n].left, a[n].left_it, b[n].left_it, Len(s[n].left))
            \/ a[n].current_right_index # b[n].current_right_index
      [] s[n].kind = "filter" -> NotEqual(s, a, b, n - 1)
      [] s[n].kind = "transform" -> NotEqual(s, a, b, n - 1)
      [] s[n].kind = "split" ->
            NotEqual(s, a, b, n - 1) \/ a[n].current_line # <<>>
      [] s[n].kind = "files" -> FileNotEqual(a[n], b[n])

JoinFresh(l) == [left_it |-> l, current_rights |-> <<>>, current_right_index |-> 0]
SplitFresh == [current_line |-> <<>>, pos_in_line |-> 0]
NoState == [none |-> TRUE]

\* A cursor q of the upstream wrapped into the iterator of the next stage
WithStage(q, st) == [c |-> Append(q.c, st), e |-> q.e]

\* JoinedDataStream::Iterator constructor on the left cursor q
JoinBegin(s, q, n) == AdvanceToNextValid(s, <<JoinFresh(q.c)>>, q.e, n)

\* begin_ptr() of the depth-n stream, constructors included
BeginCursor(s, e, n) ==
    CASE s[n].kind = "vec" -> [c |-> <<VectorBegin>>, e |-> e]
      [] s[n].kind = "dir" -> [c |-> <<DirBegin(s[n])>>, e |-> e]
      [] s[n].kind = "aggregated" -> [c |-> <<[index_ |-> 0]>>, e |-> e]
      [] s[n].kind = "joined" ->
            JoinBegin(s, BeginCursor(s[n].left, e, Len(s[n].left)), n)
      [] s[n].kind = "filter" ->
            SkipInvalidFrom(s, WithStage(BeginCursor(s, e, n - 1), NoState), n)
      [] s[n].kind = "transform" ->
            WithStage(BeginCursor(s, e, n - 1), NoState)
      [] s[n].kind = "split" ->
            SkipToNextFrom(s, WithStage(BeginCursor(s, e, n - 1), SplitFresh), n)
      [] s[n].kind = "files" ->
            FileBegin(s, WithStage(BeginCursor(s, e, n - 1), FileFresh), n)

\* end_ptr() of the depth-n stream: every constructor's loop sees an
\* upstream at end and does nothing.
EndCursor(s, n) ==
    CASE s[n].kind = "vec" -> <<VectorEnd>>
      [] s[n].kind = "dir" -> <<DirEnd>>
      [] s[n].kind = "aggregated" -> <<[index_ |-> Len(s[n].results_)]>>
      [] s[n].kind = "joined" ->
            <<JoinFresh(EndCursor(s[n].left, Len(s[n].left)))>>
      [] s[n].kind = "filter" -> Append(EndCursor(s, n - 1), NoState)
      [] s[n].kind = "transform" -> Append(EndCursor(s, n - 1), NoState)
      [] s[n].kind = "split" -> Append(EndCursor(s, n - 1), SplitFresh)
      [] s[n].kind = "files" -> Append(EndCursor(s, n - 1), FileEnd)

\* ------------------------------------------------------------- operator|
NextStage == pipeline[applied + 1]

\* Filter::operator(): wrap the stream, read nothing.
PipeFilter ==
    /\ pc = "build"
    /\ applied < Len(pipeline)
    /\ NextStage.kind = "filter"
    /\ stream' = Append(stream, NextStage)
    /\ applied' = applied + 1
    /\ UNCHANGED <<pipeline, right, ub, mm_front, it, env, result, input, pc, out, parts>>

\* Transform::operator(): wrap the stream, read nothing.
PipeTransform ==
    /\ pc = "build"
    /\ applied < Len(pipeline)
    /\ NextStage.kind = "transform"
    /\ stream' = Append(stream, NextStage)
    /\ applied' = applied + 1
    /\ UNCHANGED <<pipeline, right, ub, mm_front, it, env, result, input, pc, out, parts>>

\* Split::operator(): wrap the stream, read nothing.
PipeSplit ==
    /\ pc = "build"
    /\ applied < Len(pipeline)
    /\ NextStage.kind = "split"
    /\ stream' = Append(stream, NextStage)
    /\ applied' = applied + 1
    /\ UNCHANGED <<pipeline, right, ub, mm_front, it, env, result, input, pc, out, parts>>

Crashed(e) == e.crashed

\* OpenFiles::operator(): wrap the path stream, open nothing.
PipeOpenFiles ==
    /\ pc = "build"
    /\ applied < Len(pipeline)
    /\ NextStage.kind = "files"
    /\ stream' = Append(stream, NextStage)
    /\ applied' = applied + 1
    /\ UNCHANGED <<pipeline, right, ub, mm_front, it, env, result, input, pc, out, parts>>

RECURSIVE AggDrain(_, _, _, _, _, _)

\* if (aggregation_map.find(key) == end) { map[key] = initial_value;
\* key_order.push_back(key); }
AggSeedMap(st, map, key) ==
    IF key \in DOMAIN map THEN map ELSE map @@ (key :> st.initial_value)

AggSeedOrder(map, key_order, key) ==
    IF key \in DOMAIN map THEN key_order ELSE Append(key_order, key)

\* accumulate_func(value, aggregation_map[key])
AggAccumulate(st, map, key, x) ==
    [map EXCEPT ![key] = ApplyAccumulate(st.accumulate_func, x, @)]

AggDrainFrom(st, s, q, map, key_order) ==
    AggDrain(st, s, q.c, q.e, map, key_order)

\* The loop body ending the loop: only the first element is accumulated.
AggKeyedOnce(st, s, c, map, key_order, r, key) ==
    [map |-> AggAccumulate(st, AggSeedMap(st, map, key), key, r.v),
     key_order |-> AggSeedOrder(map, key_order, key),
     e |-> r.e]

\* The loop body for the element r whose key is key.
AggKeyed(st, s, c, map, key_order, r, key) ==
    AggDrainFrom(st, s, Incr(s, c, r.e, Len(s)),
                 AggAccumulate(st, AggSeedMap(st, map, key), key, r.v),
                 AggSeedOrder(map, key_order, key))

AggElement(st, s, c, map, key_order, r) ==
    IF r.e.crashed
    THEN [map |-> map, key_order |-> key_order, e |-> r.e]
    ELSE AggKeyed(st, s, c, map, key_order, r, ApplyKey(st.key_func, r.v))

\* AggregateByKeyDataStream constructor, the draining loop
\* while (!it.getIsEnd()): [map, key_order, e] when it ends.
AggDrain(st, s, c, e, map, key_order) ==
    IF e.crashed \/ IsEnd(s, c, Len(s))
    THEN [map |-> map, key_order |-> key_order, e |-> e]
    ELSE AggElement(st, s, c, map, key_order, Deref(s, c, e, Len(s)))

\* results_ in key_order
AggResults(map, key_order) ==
    [i \in 1..Len(key_order) |-> <<key_order[i], map[key_order[i]]>>]

\* The constructor: drain from stream->begin(), then fill results_.
Aggregate(st, s, e) ==
    AggDrainFrom(st, s, BeginCursor(s, e, Len(s)), <<>>, <<>>)

AggregateDone(d) ==
    /\ env' = d.e
    /\ stream' = <<AggStream(AggResults(d.map, d.key_order))>>
    /\ pc' = IF Crashed(d.e) THEN "crashed" ELSE "build"

\* stream | AggregateByKey(init, acc, key): the constructor drains the
\* upstream and the upstream is destroyed with the constructor's argument.
PipeAggregate ==
    /\ pc = "build"
    /\ applied < Len(pipeline)
    /\ NextStage.kind = "agg"
    /\ AggregateDone(Aggregate(NextStage, stream, env))
    /\ applied' = applied + 1
    /\ UNCHANGED <<pipeline, right, ub, mm_front, it, result, input, out, parts>>

RECURSIVE BuildRightMap(_, _, _, _)

\* right_map[kv.key].push_back(kv.value)
RightMapPush(map, kv) ==
    IF kv.key \in DOMAIN map
    THEN [map EXCEPT ![kv.key] = Append(@, kv.value)]
    ELSE map @@ (kv.key :> <<kv.value>>)

BuildRightMapFrom(s, q, map) == BuildRightMap(s, q.c, q.e, map)

BuildRightMapElement(s, c, map, r) ==
    IF r.e.crashed
    THEN [map |-> map, e |-> r.e]
    ELSE BuildRightMapFrom(s, Incr(s, c, r.e, Len(s)), RightMapPush(map, r.v))

\* JoinedDataStream::buildRightMap, the loop while (!it.getIsEnd())
BuildRightMap(s, c, e, map) ==
    IF e.crashed \/ IsEnd(s, c, Len(s))
    THEN [map |-> map, e |-> e]
    ELSE BuildRightMapElement(s, c, map, Deref(s, c, e, Len(s)))

JoinKVDone(m) ==
    /\ env' = m.e
    /\ stream' = <<JoinedStream(stream, m.map)>>
    /\ pc' = IF Crashed(m.e) THEN "crashed" ELSE "build"

\* JoinedDataStream(left, right): the constructor drains the right stream
\* into right_map; the left stream is only stored.
PipeJoinKV ==
    /\ pc = "build"
    /\ applied < Len(pipeline)
    /\ NextStage.kind = "joinkv"
    /\ JoinKVDone(BuildRightMapFrom(right, BeginCursor(right, env, Len(right)), <<>>))
    /\ applied' = applied + 1
    /\ right' = <<>>
    /\ UNCHANGED <<pipeline, ub, mm_front, it, result, input, out, parts>>

\* unordered_multimap::emplace: where a new element goes among the
\* elements of equal key is the library's choice (mm_front).
MultimapEmplace(map, key, val) ==
    IF key \in DOMAIN map
    THEN [map EXCEPT ![key] = IF mm_front THEN <<val>> \o @ ELSE Append(@, val)]
    ELSE map @@ (key :> <<val>>)

\* unordered_multimap::equal_range, as the sequence it iterates
EqualRange(map, key) == IF key \in DOMAIN map THEN map[key] ELSE <<>>

\* Join(right, lkey, rkey), first loop: while (rit != right->end())
RECURSIVE KeyJoinRight(_, _, _, _, _)
RECURSIVE KeyJoinRightNext(_, _, _, _)
KeyJoinRightStep(st, s, c, map, r) ==
    IF r.e.crashed
    THEN [map |-> map, e |-> r.e]
    ELSE KeyJoinRightNext(st, s, Incr(s, c, r.e, Len(s)),
                          MultimapEmplace(map, ApplyKey(st.rkey, r.v), r.v))
KeyJoinRightNext(st, s, q, map) == KeyJoinRight(st, s, q.c, q.e, map)
KeyJoinRight(st, s, c, e, map) ==
    IF e.crashed \/ ~NotEqual(s, c, EndCursor(s, Len(s)), Len(s))
    THEN [map |-> map, e |-> e]
    ELSE KeyJoinRightStep(st, s, c, map, Deref(s, c, e, Len(s)))

\* The rows of one left element: one per element of its equal_range, or
\* one with no right value.
KeyJoinRows(lval, range) ==
    IF range = <<>>
    THEN <<JoinRow(lval, None)>>
    ELSE [i \in 1..Len(range) |-> JoinRow(lval, Some(range[i]))]

\* Join(right, lkey, rkey), second loop: while (lit != left->end())
RECURSIVE KeyJoinLeft(_, _, _, _, _, _)
KeyJoinLeftNext(st, s, q, map, rows) == KeyJoinLeft(st, s, q.c, q.e, map, rows)
KeyJoinLeftStep(st, s, c, map, rows, r) ==
    IF r.e.crashed
    THEN [rows |-> rows, e |-> r.e]
    ELSE KeyJoinLeftNext(st, s, Incr(s, c, r.e, Len(s)), map,
             rows \o KeyJoinRows(r.v, EqualRange(map, ApplyKey(st.lkey, r.v))))
KeyJoinLeft(st, s, c, e, map, rows) ==
    IF e.crashed \/ ~NotEqual(s, c, EndCursor(s, Len(s)), Len(s))
    THEN [rows |-> rows, e |-> e]
    ELSE KeyJoinLeftStep(st, s, c, map, rows, Deref(s, c, e, Len(s)))

KeyJoinFromLeft(st, ls, lb, map) == KeyJoinLeft(st, ls, lb.c, lb.e, map, <<>>)
KeyJoinFromMap(st, ls, m) ==
    KeyJoinFromLeft(st, ls, BeginCursor(ls, m.e, Len(ls)), m.map)
KeyJoinFromRight(st, ls, rs, rb) ==
    KeyJoinFromMap(st, ls, KeyJoinRight(st, rs, rb.c, rb.e, <<>>))
\* The whole lambda body: the rows and the effects of building them.
KeyJoin(st, ls, rs, e) ==
    KeyJoinFromRight(st, ls, rs, BeginCursor(rs, e, Len(rs)))

KeyJoinDone(l) ==
    /\ env' = l.e
    /\ stream' = <<VecStream(l.rows)>>
    /\ pc' = IF Crashed(l.e) THEN "crashed" ELSE "build"

\* left | Join(right, lkey, rkey): both streams are drained here and the
\* rows are returned as an in-memory stream.
PipeJoinKey ==
    /\ pc = "build"
    /\ applied < Len(pipeline)
    /\ NextStage.kind = "joinkey"
    /\ KeyJoinDone(KeyJoin(NextStage, stream, right, env))
    /\ applied' = applied + 1
    /\ right' = <<>>
    /\ UNCHANGED <<pipeline, ub, mm_front, it, result, input, out, parts>>

\* ------------------------------------------------------- AsVector (collect)

CursorMoved(q) ==
    /\ it' = q.c
    /\ env' = q.e
    /\ pc' = IF Crashed(q.e) THEN "crashed" ELSE "test"

\* auto it = stream->begin(); auto end = stream->end();
CollectBegin ==
    /\ pc = "build"
    /\ applied = Len(pipeline)
    /\ CursorMoved(BeginCursor(stream, env, Len(stream)))
    /\ UNCHANGED <<stream, pipeline, applied, right, ub, mm_front, result, input, out, parts>>

\* while (it != end)
CollectTest ==
    /\ pc = "test"
    /\ pc' = IF NotEqual(stream, it, EndCursor(stream, Len(stream)), Len(stream))
             THEN "push" ELSE "done"
    /\ UNCHANGED <<stream, pipeline, applied, right, ub, mm_front, it, env, result, input, out, parts>>

Pushed(r) ==
    /\ env' = r.e
    /\ result' = IF Crashed(r.e) THEN result ELSE Append(result, r.v)
    /\ pc' = IF Crashed(r.e) THEN "crashed" ELSE "next"

\* result.push_back(*it)
CollectPush ==
    /\ pc = "push"
    /\ Pushed(Deref(stream, it, env, Len(stream)))
    /\ UNCHANGED <<stream, pipeline, applied, right, ub, mm_front, it, input, out, parts>>

\* ++it
CollectNext ==
    /\ pc = "next"
    /\ CursorMoved(Incr(stream, it, env, Len(stream)))
    /\ UNCHANGED <<stream, pipeline, applied, right, ub, mm_front, result, input, out, parts>>


\* -------------------------------------------- specification: numeric flows
\* What an out-of-range read can give: any value of the element type, or a
\* crash.  It only matters for runs that perform such a read.
UBChoices(S, any) == {[crash |-> TRUE, val |-> any]} \cup [crash : {FALSE}, val : S]

FlowShapes ==
    {<<FilterStage(p)>> : p \in Preds}
    \cup {<<TransformStage(f)>> : f \in Funcs}
    \cup {<<TransformStage(f), FilterStage(p)>> : f \in Funcs, p \in Preds}
    \cup {<<FilterStage(p), TransformStage(f)>> : f \in Funcs, p \in Preds}

InitCommon ==
    /\ applied = 0
    /\ it = <<>>
    /\ env = EnvInit
    /\ result = <<>>
    /\ pc = "build"
    /\ out = <<>>
    /\ parts = <<>>

InitFlow ==
    /\ input \in SeqsUpTo(Vals, MaxLen)
    /\ stream = <<VecStream(input)>>
    /\ pipeline \in FlowShapes
    /\ ub \in IF input = <<>> THEN UBChoices(Vals, 0) ELSE {[crash |-> TRUE, val |-> 0]}
    /\ right = <<>>
    /\ mm_front = FALSE
    /\ InitCommon

NextFlow == PipeFilter \/ PipeTransform \/ CollectBegin \/ CollectTest
            \/ CollectPush \/ CollectNext

SpecFlow == InitFlow /\ [][NextFlow]_vars

\* ------------------------------------------------ reference results (spec)
RECURSIVE MapFrom(_, _, _)
MapFrom(f, xs, total) ==
    IF xs = <<>> THEN <<>>
    ELSE LET a == ApplyFunc(f, Head(xs), total)
         IN  <<a.v>> \o MapFrom(f, Tail(xs), a.total)

\* [f(x) for x in xs], f called once per element in input order
MapSeq(f, xs) == MapFrom(f, xs, 0)

\* [x for x in xs if p(x)]
FilterSeq(p, xs) == SelectSeq(xs, LAMBDA x : ApplyPred(p, x))

Top == stream[Len(stream)]
Finished == pc = "done"

\* C1: collecting filter(p) over the source of xs (directly, or over a
\* transform of it) returns exactly the elements that satisfy p, in their
\* original order, for every xs including the empty one.
C1_FilterCorrect ==
    (Finished /\ Top.kind = "filter") =>
        result = FilterSeq(Top.predicate,
                           IF Len(stream) = 2 THEN input
                           ELSE MapSeq(stream[2].transform_func, input))

\* C1 on the inputs where the source is not empty and the filter reads the
\* source directly: the filter itself is right.
C1_FilterNonEmpty ==
    (Finished /\ Top.kind = "filter" /\ Len(stream) = 2 /\ input # <<>>) =>
        result = FilterSeq(Top.predicate, input)

\* C2: collecting transform(f) over the source of xs returns
\* [f(x) for x in xs] and f is invoked exactly |xs| times, in input order.
C2_TransformOrder ==
    (Finished /\ Top.kind = "transform" /\ Len(stream) = 2) =>
        /\ result = MapSeq(Top.transform_func, input)
        /\ Len(env.calls) = Len(input)
        /\ \A i \in DOMAIN env.calls : env.calls[i].arg = input[i]

\* C2 on non-empty inputs.
C2_TransformNonEmpty ==
    (Finished /\ Top.kind = "transform" /\ Len(stream) = 2 /\ input # <<>>) =>
        /\ result = MapSeq(Top.transform_func, input)
        /\ Len(env.calls) = Len(input)
        /\ \A i \in DOMAIN env.calls : env.calls[i].arg = input[i]

\* C3: the transform function is invoked exactly once per element the
\* transform stage emits, whatever consumes it: no source position is ever
\* passed to the function twice (stated on non-empty sources, where every
\* read is in range).
C3_OncePerElement ==
    input # <<>> =>
        \A i, j \in DOMAIN env.calls :
            i # j => env.calls[i].idx # env.calls[j].idx

\* C3 with the sink as the only consumer of the transform.
C3_OnceUnderSink ==
    (input # <<>> /\ Top.kind = "transform" /\ applied = Len(pipeline)) =>
        \A i, j \in DOMAIN env.calls :
            i # j => env.calls[i].idx # env.calls[j].idx

\* ------------------------------------------------ specification: split flows
InitSplit ==
    /\ input \in SeqsUpTo(Texts, MaxElems)
    /\ stream = <<VecStream(input)>>
    /\ pipeline \in {<<SplitStage(d)>> : d \in DelimStrings}
    /\ ub \in IF input = <<>> THEN UBChoices(Texts, <<>>)
              ELSE {[crash |-> TRUE, val |-> <<>>]}
    /\ right = <<>>
    /\ mm_front = FALSE
    /\ InitCommon

NextSplit == PipeSplit \/ CollectBegin \/ CollectTest \/ CollectPush \/ CollectNext

SpecSplit == InitSplit /\ [][NextSplit]_vars

\* The maximal non-empty delimiter-free runs of one text, left to right.
RunStarts(D, line) ==
    {a \in 1..Len(line) : line[a] \notin D /\ (a = 1 \/ line[a - 1] \in D)}

RunEnd(D, line, a) ==
    CHOOSE b \in a..Len(line) :
        /\ \A k \in a..b : line[k] \notin D
        /\ b = Len(line) \/ line[b + 1] \in D

RECURSIVE RunsFrom(_, _, _)
RunsFrom(D, line, starts) ==
    IF starts = {} THEN <<>>
    ELSE LET a == CHOOSE x \in starts : \A y \in starts : x <= y
         IN  <<SubSeq(line, a, RunEnd(D, line, a))>>
             \o RunsFrom(D, line, starts \ {a})

TokensOf(D, line) == RunsFrom(D, line, RunStarts(D, line))

RECURSIVE SplitSeq(_, _)
SplitSeq(D, xs) ==
    IF xs = <<>> THEN <<>>
    ELSE TokensOf(D, Head(xs)) \o SplitSeq(D, Tail(xs))

\* C4: the collected output of split(D) is, element by element in upstream
\* order, the maximal non-empty delimiter-free runs of each single element;
\* no token joins two elements and a token in progress at the end of the
\* upstream is emitted.
C4_SplitResult ==
    (Finished /\ Top.kind = "split") =>
        result = SplitSeq(Top.delimiters_, input)

\* C4 on non-empty upstream sequences.
C4_SplitNonEmpty ==
    (Finished /\ Top.kind = "split" /\ input # <<>>) =>
        result = SplitSeq(Top.delimiters_, input)

SplitCursorLive ==
    /\ it # <<>>
    /\ Top.kind = "split"
    /\ pc \in {"test", "push", "next"}
    /\ ~IsEnd(stream, it, Len(stream))

\* C5: every token the split cursor exposes while it is not at end is
\* non-empty and contains no delimiter character.
C5_NoEmptyTokens ==
    SplitCursorLive =>
        LET tok == it[Len(stream)].current_line
        IN  /\ tok # <<>>
            /\ \A k \in DOMAIN tok : tok[k] \notin Top.delimiters_

\* C5 witness: a token is exposed from an element that starts with two
\* delimiters and ends with one.
C5_Witness ==
    /\ SplitCursorLive
    /\ input = <<<<0, 0, 1>>, <<1, 0>>>>
    /\ Top.delimiters_ = {0}
    /\ result = <<<<1>>>>
    /\ pc = "push"

\* --------------------------------------------- specification: aggregation
KeyFuncs == {"parity", "ident"}
SumStages == {AggStage(init, "sum", k) : init \in {0, 5}, k \in KeyFuncs}
ListStages == {AggStage(<<>>, "list", k) : k \in KeyFuncs}

InitAgg ==
    /\ input \in SeqsUpTo(Vals, MaxLen)
    /\ stream = <<VecStream(input)>>
    /\ \/ pipeline \in {<<st>> : st \in SumStages}
       \/ pipeline \in {<<st>> : st \in ListStages}
    /\ ub \in IF input = <<>> THEN UBChoices(Vals, 0) ELSE {[crash |-> TRUE, val |-> 0]}
    /\ right = <<>>
    /\ mm_front = FALSE
    /\ InitCommon

NextAgg == PipeAggregate \/ CollectBegin \/ CollectTest \/ CollectPush \/ CollectNext

SpecAgg == InitAgg /\ [][NextAgg]_vars

\* The keys of the input, and where each occurs first.
AggKey(k, x) == ApplyKey(k, x)
InputKeys(k) == {AggKey(k, input[i]) : i \in DOMAIN input}
FirstIndex(k, key) ==
    CHOOSE i \in DOMAIN input :
        /\ AggKey(k, input[i]) = key
        /\ \A j \in 1..(i - 1) : AggKey(k, input[j]) # key

RECURSIVE FoldAcc(_, _, _)
FoldAcc(a, acc, xs) ==
    IF xs = <<>> THEN acc
    ELSE FoldAcc(a, ApplyAccumulate(a, Head(xs), acc), Tail(xs))

\* C6: aggregate-by-key emits exactly one pair per distinct key of the
\* input, the keys in the order of their first occurrence.
C6_KeyOrder ==
    (Finished /\ Top.kind = "aggregated") =>
        /\ {result[i][1] : i \in DOMAIN result} = InputKeys(pipeline[1].key_func)
        /\ Len(result) = Cardinality(InputKeys(pipeline[1].key_func))
        /\ \A i, j \in DOMAIN result :
              i < j => FirstIndex(pipeline[1].key_func, result[i][1])
                         < FirstIndex(pipeline[1].key_func, result[j][1])

\* C7: each emitted accumulator is the initial value folded, in input
\* order, over exactly the input elements of that key.
C7_AggValue ==
    (Finished /\ Top.kind = "aggregated") =>
        \A i \in DOMAIN result :
            result[i][2] =
                FoldAcc(pipeline[1].accumulate_func, pipeline[1].initial_value,
                        SelectSeq(input, LAMBDA x :
                            AggKey(pipeline[1].key_func, x) = result[i][1]))

C6_KeyOrderNonEmpty == input # <<>> => C6_KeyOrder
C7_AggValueNonEmpty == input # <<>> => C7_AggValue

\* ---------------------------------------------------- specification: joins
JoinInputs == [left : SeqsUpTo(KVs, MaxJoin), right : SeqsUpTo(KVs, MaxJoin)]

InitJoin ==
    /\ input \in JoinInputs
    /\ stream = <<VecStream(input.left)>>
    /\ right = <<VecStream(input.right)>>
    /\ \/ pipeline = <<JoinKVStage>> /\ mm_front = FALSE
       \/ pipeline = <<JoinKeyStage("field", "field")>> /\ mm_front \in BOOLEAN
    /\ ub \in IF input.left = <<>> \/ input.right = <<>>
              THEN UBChoices(KVs, [key |-> 1, value |-> 7])
              ELSE {[crash |-> TRUE, val |-> [key |-> 1, value |-> 7]]}
    /\ InitCommon

NextJoin == PipeJoinKV \/ PipeJoinKey \/ CollectBegin \/ CollectTest
            \/ CollectPush \/ CollectNext

SpecJoin == InitJoin /\ [][NextJoin]_vars

\* The right elements whose key is key, in right-stream order.
RightMatches(key) == SelectSeq(input.right, LAMBDA r : r.key = key)
JoinShape == pipeline[1].kind
Max(a, b) == IF a >= b THEN a ELSE b
CountRows(l) == Cardinality({i \in DOMAIN result : result[i].left_value = l})
CountLeft(l) == Cardinality({i \in DOMAIN input.left : input.left[i] = l})

\* What a row of the shape carries for the right element r.
RightPart(shape, r) == IF shape = "joinkv" THEN r.value ELSE r

RowsOf(shape, l) ==
    IF RightMatches(l.key) = <<>>
    THEN <<JoinRow(l, None)>>
    ELSE [i \in 1..Len(RightMatches(l.key)) |->
            JoinRow(l, Some(RightPart(shape, RightMatches(l.key)[i])))]

RECURSIVE JoinSeq(_, _)
JoinSeq(shape, ls) ==
    IF ls = <<>> THEN <<>>
    ELSE RowsOf(shape, Head(ls)) \o JoinSeq(shape, Tail(ls))

\* C8: in both join shapes every left element appears in the output; a left
\* element with k right matches produces exactly max(1, k) rows, and when
\* k = 0 its row has no right value.
C8_LeftOuter ==
    (Finished /\ JoinShape \in {"joinkv", "joinkey"}) =>
        /\ \A i \in DOMAIN result : CountLeft(result[i].left_value) > 0
        /\ \A i \in DOMAIN input.left :
              CountRows(input.left[i]) =
                  CountLeft(input.left[i])
                      * Max(1, Len(RightMatches(input.left[i].key)))
        /\ \A i \in DOMAIN result :
              RightMatches(result[i].left_value.key) = <<>>
                  => result[i].right_value = None

\* C9: the KV join's rows follow the left stream's order, and the rows of
\* one left element carry the right values of its key in right-stream order.
C9_KVJoinOrder ==
    (Finished /\ JoinShape = "joinkv") => result = JoinSeq("joinkv", input.left)

\* C10: the key-function join has the same ordering: rows follow the left
\* stream and list the matching right elements in right-stream order
\* (stated on non-empty left and right streams, where every read is in range).
C10_KeyJoinOrder ==
    (Finished /\ JoinShape = "joinkey" /\ input.left # <<>> /\ input.right # <<>>)
        => result = JoinSeq("joinkey", input.left)

NonEmptyJoin == input.left # <<>> /\ input.right # <<>>
C8_LeftOuterNonEmpty == NonEmptyJoin => C8_LeftOuter
C9_KVJoinOrderNonEmpty == NonEmptyJoin => C9_KVJoinOrder
C10_KeyJoinOrderAppend == ~mm_front => C10_KeyJoinOrder

\* C14: a stream built from an empty sequence is at end from the start:
\* whatever stage or sink is applied to it, no element is read from it,
\* nothing goes wrong and the sink gets nothing.
C14_EmptySource ==
    input = <<>> => (env.reads = <<>> /\ ~env.crashed /\ result = <<>>)

\* On a non-empty source every read is in range.
C14_NonEmptyInRange ==
    input # <<>> => (~env.crashed /\ \A i \in DOMAIN env.reads : env.reads[i] < Len(input))

\* ------------------------------------------------------------ Write (sink)
\* The sink is the last element of the pipeline expression.
WriteStage(d) == [kind |-> "write", delimiter |-> d]
Delimiters == {",", "1"}
Sink == pipeline[Len(pipeline)]

\* operator<<(std::ostream&, int): the decimal digits, most significant first
Digit(n) ==
    CASE n = 0 -> "0" [] n = 1 -> "1" [] n = 2 -> "2" [] n = 3 -> "3"
      [] n = 4 -> "4" [] n = 5 -> "5" [] n = 6 -> "6" [] n = 7 -> "7"
      [] n = 8 -> "8" [] n = 9 -> "9"

RECURSIVE Format(_)
Format(n) ==
    IF n < 0 THEN <<"-">> \o Format(0 - n)
    ELSE IF n < 10 THEN <<Digit(n)>>
         ELSE Format(n \div 10) \o <<Digit(n % 10)>>

WriteMoved(q) ==
    /\ it' = q.c
    /\ env' = q.e
    /\ pc' = IF Crashed(q.e) THEN "crashed" ELSE "wtest"

\* auto it = stream->begin(); auto end = stream->end();
WriteBegin ==
    /\ pc = "build"
    /\ applied < Len(pipeline)
    /\ NextStage.kind = "write"
    /\ WriteMoved(BeginCursor(stream, env, Len(stream)))
    /\ applied' = applied + 1
    /\ UNCHANGED <<stream, pipeline, right, ub, mm_front, result, input, out, parts>>

\* while (it != end)
WriteTest ==
    /\ pc = "wtest"
    /\ pc' = IF NotEqual(stream, it, EndCursor(stream, Len(stream)), Len(stream))
             THEN "wput" ELSE "done"
    /\ UNCHANGED <<stream, pipeline, applied, right, ub, mm_front, it, env, result, input, out, parts>>

Written(r) ==
    /\ env' = r.e
    /\ out' = IF Crashed(r.e) THEN out
              ELSE out \o Format(r.v) \o <<Sink.delimiter>>
    /\ pc' = IF Crashed(r.e) THEN "crashed" ELSE "wnext"

\* output << *it << delimiter
WritePut ==
    /\ pc = "wput"
    /\ Written(Deref(stream, it, env, Len(stream)))
    /\ UNCHANGED <<stream, pipeline, applied, right, ub, mm_front, it, result, input, parts>>

\* ++it
WriteNext ==
    /\ pc = "wnext"
    /\ WriteMoved(Incr(stream, it, env, Len(stream)))
    /\ UNCHANGED <<stream, pipeline, applied, right, ub, mm_front, result, input, out, parts>>

\* ------------------------------------------- specification: flows into Write
WriteShapes ==
    {<<WriteStage(d)>> : d \in Delimiters}
    \cup {<<FilterStage(p), WriteStage(d)>> : p \in Preds, d \in Delimiters}
    \cup {<<TransformStage(f), WriteStage(d)>> : f \in Funcs, d \in Delimiters}

InitWrite ==
    /\ input \in SeqsUpTo(Vals, MaxLen)
    /\ stream = <<VecStream(input)>>
    /\ pipeline \in WriteShapes
    /\ ub \in IF input = <<>> THEN UBChoices(Vals, 0) ELSE {[crash |-> TRUE, val |-> 0]}
    /\ right = <<>>
    /\ mm_front = FALSE
    /\ InitCommon

NextWrite == PipeFilter \/ PipeTransform \/ WriteBegin \/ WriteTest
             \/ WritePut \/ WriteNext

SpecWrite == InitWrite /\ [][NextWrite]_vars

\* The elements of the stream the sink is given.
WriteElements ==
    CASE Top.kind = "vec" -> input
      [] Top.kind = "filter" -> FilterSeq(Top.predicate, input)
      [] Top.kind = "transform" -> MapSeq(Top.transform_func, input)

\* Each element followed by one delimiter.
RECURSIVE WriteSeq(_, _)
WriteSeq(d, xs) ==
    IF xs = <<>> THEN <<>>
    ELSE Format(Head(xs)) \o <<d>> \o WriteSeq(d, Tail(xs))

\* C20: write(out, d) appends each element of the stream, in order, each
\* followed by one delimiter d; the output ends with d when there is an
\* element.
C20_WriteTrailing ==
    Finished =>
        /\ out = WriteSeq(Sink.delimiter, WriteElements)
        /\ (WriteElements # <<>> => out[Len(out)] = Sink.delimiter)

\* C20 on non-empty sources.
C20_WriteNonEmpty == input # <<>> => C20_WriteTrailing

\* ------------------------------------------------- SplitExpected (partition)
SplitExpectedStage == [kind |-> "splitexpected"]

\* std::expected<T, E>: has_value() and the value or the error it holds
Fallibles == [has_value : BOOLEAN, payload : Keys]

RECURSIVE PartDrain(_, _, _, _, _)
PartDrainFrom(s, q, u, x) == PartDrain(s, q.c, q.e, u, x)

\* The loop body for the element r: expected_stream->add(*value) or
\* unexpected_stream->add(value.error()), then ++it.
PartElement(s, c, u, x, r) ==
    IF r.e.crashed
    THEN [unexpected |-> u, expected |-> x, e |-> r.e]
    ELSE PartDrainFrom(s, Incr(s, c, r.e, Len(s)),
                       IF r.v.has_value THEN u ELSE Append(u, r.v.payload),
                       IF r.v.has_value THEN Append(x, r.v.payload) ELSE x)

\* SplitExpected::operator(), the loop while (!it.getIsEnd())
PartDrain(s, c, e, u, x) ==
    IF e.crashed \/ IsEnd(s, c, Len(s))
    THEN [unexpected |-> u, expected |-> x, e |-> e]
    ELSE PartElement(s, c, u, x, Deref(s, c, e, Len(s)))

SplitExpectedRun(s, e) == PartDrainFrom(s, BeginCursor(s, e, Len(s)), <<>>, <<>>)

\* SplitExpectedResult: the two in-memory streams; order and done record
\* which of them the caller has moved out and what its sink returned.
SplitExpectedDone(d) ==
    /\ env' = d.e
    /\ parts' = [unexpected_stream |-> <<VecStream(d.unexpected)>>,
                 expected_stream |-> <<VecStream(d.expected)>>,
                 order |-> <<>>, done |-> <<>>]
    /\ pc' = IF Crashed(d.e) THEN "crashed" ELSE "parted"

\* stream | SplitExpected(): drains the stream into the two vectors.
PipeSplitExpected ==
    /\ pc = "build"
    /\ applied < Len(pipeline)
    /\ NextStage.kind = "splitexpected"
    /\ SplitExpectedDone(SplitExpectedRun(stream, env))
    /\ applied' = applied + 1
    /\ stream' = <<>>
    /\ UNCHANGED <<pipeline, right, ub, mm_front, it, result, input, out>>

\* The same for a handle passed by reference: it keeps its stream.
MovedFromKept(h) == h

\* A std::unique_ptr after operator|'s by-value parameter was move-
\* constructed from it: null.
MovedFrom(h) == <<>>

\* The caller starts a sink on one of the two streams; the result of the
\* sink that ran before, if any, is kept in done.
TakePart(name, s) ==
    /\ pc \in {"parted", "done"}
    /\ s # <<>>
    /\ stream' = s
    /\ parts' = [parts EXCEPT ![name] = MovedFrom(@),
                              !.order = Append(@, name),
                              !.done = IF pc = "done" THEN Append(@, result) ELSE @]
    /\ result' = <<>>
    /\ it' = <<>>
    /\ pc' = "build"
    /\ UNCHANGED <<pipeline, applied, right, ub, mm_front, env, input, out>>

\* std::move(split_result.unexpected_stream) | AsVector()
TakeUnexpected ==
    /\ parts # <<>>
    /\ TakePart("unexpected_stream", parts.unexpected_stream)

\* std::move(split_result.expected_stream) | AsVector()
TakeExpected ==
    /\ parts # <<>>
    /\ TakePart("expected_stream", parts.expected_stream)

\* ------------------------------------------------ specification: partition
InitPart ==
    /\ input \in SeqsUpTo(Fallibles, MaxLen)
    /\ stream = <<VecStream(input)>>
    /\ pipeline = <<SplitExpectedStage>>
    /\ ub \in UBChoices(Fallibles, [has_value |-> TRUE, payload |-> 1])
    /\ right = <<>>
    /\ mm_front = FALSE
    /\ InitCommon

NextPart == PipeSplitExpected \/ TakeUnexpected \/ TakeExpected \/ CollectBegin
            \/ CollectTest \/ CollectPush \/ CollectNext

SpecPart == InitPart /\ [][NextPart]_vars

Failures(xs) == SelectSeq(xs, LAMBDA v : ~v.has_value)
Successes(xs) == SelectSeq(xs, LAMBDA v : v.has_value)
PayloadsOf(xs) == [i \in 1..Len(xs) |-> xs[i].payload]

\* The two output streams as SplitExpected returned them.
Parted == parts # <<>> /\ parts.order = <<>> /\ pc = "parted"

\* C11: the failures output holds exactly the failure payloads of the input
\* and the successes output exactly the success values, both in upstream
\* order; together they account for every input element once.
C11_PartitionTotal ==
    Parted =>
        /\ parts.unexpected_stream[1].data = PayloadsOf(Failures(input))
        /\ parts.expected_stream[1].data = PayloadsOf(Successes(input))
        /\ Len(parts.unexpected_stream[1].data) + Len(parts.expected_stream[1].data)
               = Len(input)

\* C11 on non-empty inputs.
C11_PartitionNonEmpty == input # <<>> => C11_PartitionTotal

\* The sink is running on an output stream that holds no element.
OnEmptyPart ==
    /\ parts # <<>>
    /\ parts.order # <<>>
    /\ stream[1].data = <<>>

\* C12: an output stream with no element is at end immediately: the sink
\* run on it never reads an element and returns nothing, whichever of the
\* two streams is consumed first.
C12_EmptyPartAtEnd ==
    OnEmptyPart => (pc \notin {"push", "next", "crashed"} /\ result = <<>>)

\* What the sinks returned for the two streams once both have run.
PartResult(name) ==
    IF parts.order[1] = name THEN parts.done[1] ELSE result

\* When both outputs hold elements, both sinks return them whatever the
\* order of consumption.
C12_NonEmptyParts ==
    (parts # <<>> /\ Len(parts.order) = 2 /\ Finished
        /\ Failures(input) # <<>> /\ Successes(input) # <<>>) =>
        /\ PartResult("unexpected_stream") = PayloadsOf(Failures(input))
        /\ PartResult("expected_stream") = PayloadsOf(Successes(input))

\* --------------------------------------- specification: file-content source
MaxPaths == 3
MaxLines == 2

\* A line is empty or not; a path cannot be opened or names a file.
LineTexts == {<<>>, <<1>>}
Unopenable == [openable |-> FALSE, lines |-> <<>>]
PathVals ==
    {Unopenable} \cup [openable : {TRUE}, lines : SeqsUpTo(LineTexts, MaxLines)]

InitFile ==
    /\ input \in SeqsUpTo(PathVals, MaxPaths)
    /\ stream = <<VecStream(input)>>
    /\ pipeline = <<OpenFilesStage>>
    /\ ub \in IF input = <<>>
              THEN UBChoices({Unopenable, [openable |-> TRUE, lines |-> <<<<1>>>>]},
                             Unopenable)
              ELSE [crash : BOOLEAN, val : {Unopenable}]
    /\ right = <<>>
    /\ mm_front = FALSE
    /\ InitCommon

NextFile == PipeOpenFiles \/ CollectBegin \/ CollectTest \/ CollectPush
            \/ CollectNext

SpecFile == InitFile /\ [][NextFile]_vars

\* The non-empty lines of the files that can be opened, in path order.
RECURSIVE FileLines(_)
FileLines(ps) ==
    IF ps = <<>> THEN <<>>
    ELSE SelectSeq(Head(ps).lines, LAMBDA l : l # <<>>) \o FileLines(Tail(ps))

\* C16: the stream yields, in path order and in line order, exactly the
\* non-empty lines of every file that can be opened.
C16_FileLines == Finished => result = FileLines(input)

\* Every file that can be opened has a line and no empty line.
GoodFiles ==
    \A i \in DOMAIN input :
        input[i].openable =>
            (input[i].lines # <<>> /\ \A j \in DOMAIN input[i].lines : input[i].lines[j] # <<>>)

\* C16 on files without empty lines, in a build that survives the null
\* path_end: all lines come out.
C16_GoodFiles ==
    (GoodFiles /\ input # <<>> /\ ~ub.crash) =>
        (pc # "crashed" /\ (Finished => result = FileLines(input)))

\* The file cursor the sink holds, once it exists.
FileCursor == it[Len(it)]
HasCursor == it # <<>> /\ pc \in {"test", "push", "next", "done"}

\* C17: while its end flag is false the file cursor never exposes an empty
\* string.
C17_NoEmptyLine ==
    (HasCursor /\ ~FileCursor.is_end) => FileCursor.current_line # <<>>

\* C17 for the first line of each file, which open_next_file does test.
C17_FirstLineNonEmpty ==
    (HasCursor /\ ~FileCursor.is_end /\ FileCursor.current_file[1].pos = 1)
        => FileCursor.current_line # <<>>

HasUnopenable == \E i \in DOMAIN input : ~input[i].openable

\* C18: a path that cannot be opened raises no error and emits nothing, and
\* the lines of all files before and after it are still emitted.
C18_OpenFailedSwallowed ==
    HasUnopenable =>
        /\ ~env.thrown
        /\ Finished => result = FileLines(input)

\* C18 when the other files have no empty line and the build survives the
\* null path_end.
C18_OpenFailedGoodFiles ==
    (HasUnopenable /\ GoodFiles /\ ~ub.crash) =>
        /\ ~env.thrown /\ pc # "crashed"
        /\ Finished => result = FileLines(input)

\* The open file was read to its last line.
Exhausted(cur) ==
    /\ cur.current_file # None
    /\ cur.current_file[1].pos = Len(cur.current_file[1].lines)

\* Between calls: at most one file was ever open at once, the cursor holds
\* an open file exactly when one is open, and none when its end flag is
\* true.
C19_HandleInv ==
    /\ env.peak <= 1
    /\ env.open <= 1
    /\ HasCursor =>
        /\ (FileCursor.current_file # None) <=> (env.open = 1)
        /\ FileCursor.is_end => (FileCursor.current_file = None /\ env.open = 0)

\* A call on a cursor whose file was read to its last line closes that
\* file: after it the cursor is at end or holds a file it has just opened.
C19_ClosedByNextCall ==
    (HasCursor /\ Exhausted(FileCursor) /\ pc = "next" /\ pc' = "test") =>
        \/ it'[Len(it')].current_file = None
        \/ (it'[1].index > it[1].index /\ it'[Len(it')].current_file[1].pos = 1)

\* C19: at most one file is open in every state of a file cursor; a file is
\* closed by the call after its last line was emitted, before the next file
\* is opened; and no file is open when the end flag is true.
C19_HandleLifecycle == []C19_HandleInv /\ [][C19_ClosedByNextCall]_vars

\* The cursor has moved from the last line of one file to the first line of
\* the next, which is now the one open file.
C19_Witness ==
    /\ pc = "test"
    /\ Len(result) = 2
    /\ Len(input) = 2
    /\ input[1].lines = <<<<1>>, <<1>>>>
    /\ ~FileCursor.is_end
    /\ FileCursor.current_file # None
    /\ FileCursor.current_file[1].pos = 1
    /\ env.open = 1


\* ------------------------------------- specification: a client of a cursor
\* A client that holds the begin cursor of a stream and calls operator++
\* and operator* in any order, whether the cursor is at end or not.
MaxCursorLen == 2
MaxCalls == 4

CursorTexts == {<<>>, <<1>>, <<0, 1>>, <<1, 0, 1>>}
CursorPaths ==
    {Unopenable, [openable |-> TRUE, lines |-> <<>>],
     [openable |-> TRUE, lines |-> <<<<1>>>>],
     [openable |-> TRUE, lines |-> <<<<>>, <<1>>>>]}
\* A directory entry: a regular file or not, and its path.
DirEntries ==
    {[regular |-> TRUE, path |-> [openable |-> TRUE, lines |-> <<<<1>>>>]],
     [regular |-> TRUE, path |-> Unopenable],
     [regular |-> FALSE, path |-> Unopenable]}

InitCursor ==
    /\ \/ /\ input \in SeqsUpTo(Vals, MaxCursorLen)
          /\ stream = <<VecStream(input)>>
          /\ pipeline \in {<<>>, <<FilterStage("even")>>, <<TransformStage("add10")>>,
                           <<FilterStage("odd"), TransformStage("running")>>,
                           <<AggStage(0, "sum", "parity")>>}
          /\ ub \in UBChoices({0, 1}, 0)
          /\ right = <<>>
       \/ /\ input \in SeqsUpTo(CursorTexts, MaxCursorLen)
          /\ stream = <<VecStream(input)>>
          /\ pipeline \in {<<SplitStage(<<0>>)>>}
          /\ ub \in UBChoices({<<1, 0>>}, <<>>)
          /\ right = <<>>
       \/ /\ input \in SeqsUpTo(KVs, MaxCursorLen)
          /\ stream = <<VecStream(input)>>
          /\ pipeline = <<JoinKVStage>>
          /\ right \in {<<VecStream(rs)>> :
                           rs \in {<<[key |-> 1, value |-> 7]>>,
                                   <<[key |-> 1, value |-> 7], [key |-> 1, value |-> 8]>>}}
          /\ ub \in UBChoices({[key |-> 2, value |-> 8]}, [key |-> 1, value |-> 7])
       \/ /\ input \in SeqsUpTo(CursorPaths, MaxCursorLen)
          /\ stream = <<VecStream(input)>>
          /\ pipeline = <<OpenFilesStage>>
          /\ ub \in [crash : BOOLEAN, val : {Unopenable}]
          /\ right = <<>>
       \/ /\ input \in SeqsUpTo(DirEntries, MaxCursorLen)
          /\ stream = <<DirStream(input)>>
          /\ pipeline \in {<<>>, <<OpenFilesStage>>}
          /\ ub \in [crash : BOOLEAN, val : {Unopenable}]
          /\ right = <<>>
    /\ mm_front = FALSE
    /\ InitCommon

\* auto it = stream->begin();
CursorBegin ==
    /\ pc = "build"
    /\ applied = Len(pipeline)
    /\ it' = BeginCursor(stream, env, Len(stream)).c
    /\ env' = BeginCursor(stream, env, Len(stream)).e
    /\ pc' = IF Crashed(BeginCursor(stream, env, Len(stream)).e)
             THEN "crashed" ELSE "cursor"
    /\ UNCHANGED <<stream, pipeline, applied, right, ub, mm_front, result, input, out, parts>>

\* How a call ended for the client.
Outcome(e) == IF e.crashed THEN "crashed" ELSE IF e.thrown THEN "thrown" ELSE "returned"

\* The client after a call made with the end flag at_end and effects e: it
\* notes the outcome, catches the exception if any, and goes on.
Called(op, at_end, e) ==
    /\ result' = Append(result, [op |-> op, at_end |-> at_end, outcome |-> Outcome(e)])
    /\ env' = [e EXCEPT !.thrown = FALSE]
    /\ pc' = IF Crashed(e) THEN "crashed" ELSE "cursor"

\* ++it
CursorNext ==
    /\ pc = "cursor"
    /\ Len(result) < MaxCalls
    /\ it' = Incr(stream, it, env, Len(stream)).c
    /\ Called("next", IsEnd(stream, it, Len(stream)),
              Incr(stream, it, env, Len(stream)).e)
    /\ UNCHANGED <<stream, pipeline, applied, right, ub, mm_front, input, out, parts>>

\* *it
CursorRead ==
    /\ pc = "cursor"
    /\ Len(result) < MaxCalls
    /\ Called("read", IsEnd(stream, it, Len(stream)),
              Deref(stream, it, env, Len(stream)).e)
    /\ UNCHANGED <<stream, pipeline, applied, right, ub, mm_front, it, input, out, parts>>

NextCursor ==
    PipeFilter \/ PipeTransform \/ PipeSplit \/ PipeOpenFiles \/ PipeAggregate
    \/ PipeJoinKV \/ CursorBegin \/ CursorNext \/ CursorRead

SpecCursor == InitCursor /\ [][NextCursor]_vars

CursorAtEnd == pc = "cursor" /\ IsEnd(stream, it, Len(stream))

\* C13: end monotonicity.  For every stream kind and every sequence of
\* calls of a live client, calls of ++ on a cursor at end included, a cursor
\* whose end flag reports true reports true after every further call.
C13_EndStays ==
    [][(CursorAtEnd /\ pc' = "cursor") => IsEnd(stream', it', Len(stream'))]_vars

\* C13 witness: a split cursor that reached the end after one token and on
\* which ++ was called twice more.
C13_Witness ==
    /\ CursorAtEnd
    /\ Top.kind = "split"
    /\ input = <<<<0, 1>>>>
    /\ Len(result) = 3
    /\ \A i \in DOMAIN result : result[i].op = "next" /\ result[i].outcome = "returned"
    /\ ~result[1].at_end /\ result[2].at_end /\ result[3].at_end

\* C15: every read of the current element made on a cursor whose end flag
\* is true raises an error, whatever the stream kind.
C15_ReadAtEndRaises ==
    \A i \in DOMAIN result :
        (result[i].op = "read" /\ result[i].at_end) => result[i].outcome = "thrown"

\* C15 on file-content cursors, whose operator* tests is_end.
C15_FileReadAtEndRaises ==
    (stream # <<>> /\ Top.kind = "files") =>
        \A i \in DOMAIN result :
            (result[i].op = "read" /\ result[i].at_end) => result[i].outcome = "thrown"

\* -------------------------------------------------------------- Out (sink)
OutStage == [kind |-> "out"]

\* operator<<(std::ostream&, const std::string&): the characters as they
\* are; Chars stand for the characters '0' and '1'.
PutText(line) == [i \in DOMAIN line |-> Digit(line[i])]

\* os << *it for the element type of the stream s
Put(s, v) ==
    IF s[Len(s)].kind \in {"split", "files"} THEN PutText(v) ELSE Format(v)

OutMoved(q) ==
    /\ it' = q.c
    /\ env' = q.e
    /\ pc' = IF Crashed(q.e) THEN "crashed"
             ELSE IF q.e.thrown THEN "failed" ELSE "otest"

\* auto it = stream->begin(); auto end = stream->end();
OutBegin ==
    /\ pc = "build"
    /\ applied < Len(pipeline)
    /\ NextStage.kind = "out"
    /\ OutMoved(BeginCursor(stream, env, Len(stream)))
    /\ applied' = applied + 1
    /\ UNCHANGED <<stream, pipeline, right, ub, mm_front, result, input, out, parts>>

\* while (it != end)
OutTest ==
    /\ pc = "otest"
    /\ pc' = IF NotEqual(stream, it, EndCursor(stream, Len(stream)), Len(stream))
             THEN "oput" ELSE "done"
    /\ UNCHANGED <<stream, pipeline, applied, right, ub, mm_front, it, env, result, input, out, parts>>

OutWritten(r) ==
    /\ env' = r.e
    /\ out' = IF Crashed(r.e) THEN out ELSE out \o Put(stream, r.v) \o <<"\n">>
    /\ pc' = IF Crashed(r.e) THEN "crashed" ELSE "onext"

\* os << *it << "\n"
OutPut ==
    /\ pc = "oput"
    /\ OutWritten(Deref(stream, it, env, Len(stream)))
    /\ UNCHANGED <<stream, pipeline, applied, right, ub, mm_front, it, result, input, parts>>

\* ++it
OutNext ==
    /\ pc = "onext"
    /\ OutMoved(Incr(stream, it, env, Len(stream)))
    /\ UNCHANGED <<stream, pipeline, applied, right, ub, mm_front, result, input, out, parts>>

\* --------------------------------------------- specification: flows into Out
InitPrint ==
    /\ \/ /\ input \in SeqsUpTo(Vals, MaxLen)
          /\ stream = <<VecStream(input)>>
          /\ pipeline \in {<<OutStage>>}
                          \cup {<<FilterStage(p), OutStage>> : p \in Preds}
                          \cup {<<TransformStage(f), OutStage>> : f \in Funcs}
          /\ ub \in IF input = <<>> THEN UBChoices(Vals, 0)
                    ELSE {[crash |-> TRUE, val |-> 0]}
       \/ /\ input \in SeqsUpTo(Texts, MaxElems)
          /\ stream = <<VecStream(input)>>
          /\ pipeline = <<SplitStage(<<0>>), OutStage>>
          /\ ub \in IF input = <<>> THEN UBChoices({<<1, 0, 1>>}, <<>>)
                    ELSE {[crash |-> TRUE, val |-> <<>>]}
    /\ right = <<>>
    /\ mm_front = FALSE
    /\ InitCommon

NextPrint == PipeFilter \/ PipeTransform \/ PipeSplit \/ OutBegin \/ OutTest
             \/ OutPut \/ OutNext

SpecPrint == InitPrint /\ [][NextPrint]_vars

\* The elements of the stream the sink is given.
PrintElements ==
    CASE Top.kind = "vec" -> input
      [] Top.kind = "filter" -> FilterSeq(Top.predicate, input)
      [] Top.kind = "transform" -> MapSeq(Top.transform_func, input)
      [] Top.kind = "split" -> SplitSeq(Top.delimiters_, input)

\* Each element as the stream inserter writes it, followed by one newline.
RECURSIVE PrintSeq(_, _)
PrintSeq(s, xs) ==
    IF xs = <<>> THEN <<>>
    ELSE Put(s, Head(xs)) \o <<"\n">> \o PrintSeq(s, Tail(xs))

\* C21: print(out) exhausts the stream and writes each of its elements, in
\* order, each followed by exactly one newline character.
C21_PrintLines ==
    Finished =>
        /\ out = PrintSeq(stream, PrintElements)
        /\ IsEnd(stream, it, Len(stream))

\* C21 on non-empty sources.
C21_PrintNonEmpty == input # <<>> => C21_PrintLines

\* ----------------------------------------------------- Dir(path, recursive)
\* A directory of the file system: the sequence of its entries in the order
\* the operating system lists them.  An entry is a regular file, a
\* directory with its own entries, or something else (a socket, a device).
MaxDirEntries == 2

RegularFile(content) ==
    [regular |-> TRUE, dir |-> FALSE,
     path |-> [openable |-> TRUE, lines |-> content], children |-> <<>>]
Special == [regular |-> FALSE, dir |-> FALSE, path |-> Unopenable, children |-> <<>>]
Subdir(es) == [regular |-> FALSE, dir |-> TRUE, path |-> Unopenable, children |-> es]

\* The contents "file1", "file2", "file3" of the tests: one line each.
File1 == <<<<0>>>>
File2 == <<<<1>>>>
File3 == <<<<1, 0>>>>

\* Directories two levels, one level and directly below the root.
Deepest == SeqsUpTo({RegularFile(File3)}, 1)
Middle ==
    SeqsUpTo({RegularFile(File2), RegularFile(File3)} \cup {Subdir(t) : t \in Deepest}, 2)
Roots ==
    SeqsUpTo({RegularFile(File1), RegularFile(File2), Special}
                 \cup {Subdir(t) : t \in Middle},
             MaxDirEntries)

\* The same without the flag: every directory is entered.
DescendsAlways(recursive, node) == node.dir

\* recursive_directory_iterator enters a directory after listing it;
\* directory_iterator never does.
Descends(recursive, node) == recursive /\ node.dir

RECURSIVE Walk(_, _)
\* What ++ on the directory iterator of the stream steps through.
Walk(nodes, recursive) ==
    IF nodes = <<>> THEN <<>>
    ELSE <<[regular |-> Head(nodes).regular, path |-> Head(nodes).path]>>
         \o (IF Descends(recursive, Head(nodes))
             THEN Walk(Head(nodes).children, recursive) ELSE <<>>)
         \o Walk(Tail(nodes), recursive)

\* The same without the test: construction always succeeds.
PathExistsAlways(d) == TRUE

\* fs::exists(path)
PathExists(d) == d.exists

\* Dir(path, recursive): DirStream's constructor throws std::runtime_error
\* when the path does not exist; otherwise the stream keeps path and flag.
MakeDir ==
    /\ pc = "make"
    /\ IF PathExists(input)
       THEN /\ stream' = <<DirStream(Walk(input.children, input.recursive))>>
            /\ pc' = "build"
            /\ env' = env
       ELSE /\ stream' = stream
            /\ pc' = "failed"
            /\ env' = [env EXCEPT !.thrown = TRUE]
    /\ UNCHANGED <<pipeline, applied, right, ub, mm_front, it, result, input, out, parts>>

\* ------------------------------------- specification: directory pipelines
\* Dir(...) | AsVector() and Dir(...) | OpenFiles() | Out(os)
InitDir ==
    /\ input \in [exists : {TRUE}, recursive : BOOLEAN, children : Roots]
                 \cup [exists : {FALSE}, recursive : BOOLEAN, children : {<<>>}]
    /\ stream = <<>>
    /\ \/ pipeline = <<>> /\ ub = [crash |-> FALSE, val |-> Unopenable]
       \/ pipeline = <<OpenFilesStage, OutStage>>
            /\ ub \in [crash : BOOLEAN, val : {Unopenable}]
    /\ right = <<>>
    /\ mm_front = FALSE
    /\ applied = 0
    /\ it = <<>>
    /\ env = EnvInit
    /\ result = <<>>
    /\ pc = "make"
    /\ out = <<>>
    /\ parts = <<>>

NextDir == MakeDir \/ PipeOpenFiles \/ OutBegin \/ OutTest \/ OutPut \/ OutNext
           \/ CollectBegin \/ CollectTest \/ CollectPush \/ CollectNext

SpecDir == InitDir /\ [][NextDir]_vars

\* The directory tree of the nested-directory test, walked recursively.
NestedTree ==
    [exists |-> TRUE, recursive |-> TRUE,
     children |-> <<RegularFile(File1),
                    Subdir(<<RegularFile(File2), Subdir(<<RegularFile(File3)>>)>>)>>]

\* C22: over the nested tree of the test (file1; sub1/file2; sub1/sub2/file3,
\* one line each), the recursive walk piped through open-files into the
\* print sink writes the file contents one after the other and nothing else.
C22_NestedConcat ==
    (input = NestedTree /\ pipeline # <<>> /\ Finished) =>
        out = PutText(File1[1]) \o PutText(File2[1]) \o PutText(File3[1])

\* What the sink writes there: each content followed by a newline.
C22_NestedLines ==
    (input = NestedTree /\ pipeline # <<>> /\ Finished) =>
        out = PutText(File1[1]) \o <<"\n">> \o PutText(File2[1]) \o <<"\n">>
              \o PutText(File3[1]) \o <<"\n">>

\* C23: a directory source for a path that does not exist fails at
\* construction: once Dir(...) has run the pipeline has failed with the
\* error, no stage or sink was applied, no cursor exists, nothing was read,
\* opened, collected or written.
C23_NotFoundAtConstruction ==
    (~input.exists /\ pc # "make") =>
        /\ pc = "failed"
        /\ env.thrown
        /\ stream = <<>>
        /\ applied = 0
        /\ it = <<>>
        /\ env.reads = <<>>
        /\ env.peak = 0
        /\ result = <<>>
        /\ out = <<>>

\* C23 witness: the pipeline of the test after Dir threw.
C23_Witness ==
    /\ ~input.exists
    /\ pipeline = <<OpenFilesStage, OutStage>>
    /\ pc = "failed"
    /\ env.thrown

\* The regular files of a directory and, for a recursive walk, of the
\* directories below it, in listing order.
RECURSIVE RegularPaths(_, _)
RegularPaths(nodes, recursive) ==
    IF nodes = <<>> THEN <<>>
    ELSE (IF Head(nodes).regular THEN <<Head(nodes).path>>
          ELSE IF Head(nodes).dir /\ recursive
               THEN RegularPaths(Head(nodes).children, recursive)
               ELSE <<>>)
         \o RegularPaths(Tail(nodes), recursive)

\* C24: the directory stream yields each regular file once and no other
\* entry: with recursive = false the regular files directly inside the
\* directory only, with recursive = true those of every nested
\* subdirectory as well.
C24_DirContents ==
    (input.exists /\ pipeline = <<>> /\ Finished) =>
        result = RegularPaths(input.children, input.recursive)

\* C24 witness: the non-recursive walk of a directory holding a file, a
\* special entry and a subdirectory with files has yielded the one file.
C24_Witness ==
    /\ Finished
    /\ pipeline = <<>>
    /\ ~input.recursive
    /\ input.children = <<Subdir(<<RegularFile(File2), RegularFile(File3)>>),
                          RegularFile(File1)>>
    /\ result = <<RegularFile(File1).path>>

\* ------------------------------------- specification: the eager adapters
\* AggregateByKey, SplitExpected and the two Join shapes, each applied to
\* in-memory streams and followed by the sinks of their own specification.
InitEager == InitAgg \/ InitPart \/ InitJoin

NextEager ==
    PipeAggregate \/ PipeSplitExpected \/ PipeJoinKV \/ PipeJoinKey
    \/ TakeUnexpected \/ TakeExpected \/ CollectBegin \/ CollectTest
    \/ CollectPush \/ CollectNext

SpecEager == InitEager /\ [][NextEager]_vars

\* The input an eager adapter materializes: the right stream for a join,
\* the upstream otherwise.
EagerInput ==
    IF pipeline[1].kind \in {"joinkv", "joinkey"} THEN input.right ELSE input

\* Reading a vector from its first element to its last.
DrainReads(xs) == [i \in 1..Len(xs) |-> i - 1]

\* The stage has returned its stream (or pair of streams) to the caller.
EagerApplied == applied = 1 /\ pc # "crashed"

\* C25: when an eager adapter (aggregate-by-key, partition-by-result, the
\* right side of a join) hands its output to the caller, so before any
\* consumer can observe an output element, it has read its whole input,
\* first element to last.
C25_EagerDrained ==
    EagerApplied =>
        /\ Len(env.reads) >= Len(EagerInput)
        /\ SubSeq(env.reads, 1, Len(EagerInput)) = DrainReads(EagerInput)

\* C25 witness: aggregate-by-key has returned over three elements and no
\* cursor on its output exists yet.
C25_Witness ==
    /\ EagerApplied
    /\ pc = "build"
    /\ Top.kind = "aggregated"
    /\ input = <<1, 2, 1>>
    /\ env.reads = <<0, 1, 2>>
    /\ it = <<>>
    /\ result = <<>>

\* ------------------------- specification: split over a filtered text stream
\* AsDataFlow(texts) | Split(d) and AsDataFlow(texts) | Filter(p) | Split(d)
InitSplitFlow ==
    /\ input \in SeqsUpTo(Texts, MaxElems)
    /\ stream = <<VecStream(input)>>
    /\ pipeline \in {<<SplitStage(<<0>>)>>, <<FilterStage("nonempty"), SplitStage(<<0>>)>>}
    /\ ub \in IF input = <<>> THEN UBChoices({<<1, 0, 1>>}, <<>>)
              ELSE {[crash |-> TRUE, val |-> <<>>]}
    /\ right = <<>>
    /\ mm_front = FALSE
    /\ InitCommon

NextSplitFlow == PipeFilter \/ PipeSplit \/ CollectBegin \/ CollectTest
                 \/ CollectPush \/ CollectNext

SpecSplitFlow == InitSplitFlow /\ [][NextSplitFlow]_vars

\* The number of tokens of the elements before the i-th.
RECURSIVE TokensBefore(_, _, _)
TokensBefore(D, xs, i) ==
    IF i <= 1 THEN 0
    ELSE TokensBefore(D, xs, i - 1) + Len(TokensOf(D, xs[i - 1]))

\* The element the k-th token of the stream is scanned from.
TokenOwner(D, xs, k) ==
    CHOOSE i \in DOMAIN xs :
        TokensBefore(D, xs, i) < k /\ k <= TokensBefore(D, xs, i + 1)

\* The k-th token is in progress when the scanner exhausts its element:
\* it is the element's last token and no delimiter ends the element.
EndsItsElement(D, xs, k) ==
    /\ k = TokensBefore(D, xs, TokenOwner(D, xs, k) + 1)
    /\ xs[TokenOwner(D, xs, k)][Len(xs[TokenOwner(D, xs, k)])] \notin D

\* The consumer is being handed the next token of the split stream.
TokenHanded ==
    /\ pc = "push"
    /\ Top.kind = "split"
    /\ Len(result) < Len(SplitSeq(Top.delimiters_, input))

\* C26: when the consumer is handed a token that was in progress as the
\* scanner exhausted its upstream element, the upstream cursor has not yet
\* moved on: no element after the token's own has been read.
C26_TokenBeforeNextElement ==
    (TokenHanded /\ EndsItsElement(Top.delimiters_, input, Len(result) + 1)) =>
        \A i \in DOMAIN env.reads :
            env.reads[i] < TokenOwner(Top.delimiters_, input, Len(result) + 1)

\* C26 directly over an in-memory stream, whose ++ reads nothing.
C26_OverVector == Len(pipeline) = 1 => C26_TokenBeforeNextElement

\* The reads that drain the right stream of a join: one per element, or the
\* one stale read of an empty in-memory stream.
RightDrainReads == IF input.right = <<>> THEN <<0>> ELSE DrainReads(input.right)

\* The join stage has returned and no sink has taken a cursor yet.
JoinApplied == applied = 1 /\ pc = "build" /\ it = <<>>

\* The cursor of the join's output stream stands on a left element.
JoinCursorLive == it # <<>> /\ pc \in {"test", "push", "next"} /\ Top.kind = "joined"

\* C27: in both join shapes applying the stage drains the right stream
\* only; afterwards a left element is read only when the output cursor
\* has come to it, never ahead of the cursor.
C27_LeftLazy ==
    /\ JoinApplied => env.reads = RightDrainReads
    /\ JoinCursorLive =>
          \A i \in DOMAIN env.reads :
              i > Len(RightDrainReads) => env.reads[i] <= it[1].left_it[1].index

\* C27 for the KV-keyed join alone.
C27_KVJoinLazy == pipeline[1].kind = "joinkv" => C27_LeftLazy

\* C28: stream | stage invokes the stage once and leaves the caller's
\* handle empty: the stream piped into SplitExpected is gone from the
\* caller once the stage has returned, each of the two streams it returned
\* is empty in the caller's hands once piped into a sink, and no handle is
\* piped twice.
C28_PipeOwnership ==
    parts # <<>> =>
        /\ applied = 1
        /\ pc = "parted" => stream = <<>>
        /\ \A i \in DOMAIN parts.order : parts[parts.order[i]] = <<>>
        /\ \A i, j \in DOMAIN parts.order : i # j => parts.order[i] # parts.order[j]
        /\ Len(parts.done) <= Len(parts.order)

\* C28 witness: both streams of the pair were piped into sinks, one after
\* the other, and the second sink has returned.
C28_Witness ==
    /\ parts # <<>>
    /\ parts.order = <<"expected_stream", "unexpected_stream">>
    /\ parts.expected_stream = <<>>
    /\ parts.unexpected_stream = <<>>
    /\ Len(parts.done) = 1
    /\ pc = "done"
    /\ Len(input) = 2

\* No ++ was called on the cursor while it was at end.
UpToEnd == \A i \in DOMAIN result : result[i].op = "next" => ~result[i].at_end

\* it != end, the test of the sinks' loops
SinkTest == NotEqual(stream, it, EndCursor(stream, Len(stream)), Len(stream))

\* C29: for every stream kind, in every state reached from begin by calls
\* of ++ up to the end, the sinks' test it != end is true exactly when the
\* cursor's end flag is false.
C29_TestIsEndFlag ==
    (pc = "cursor" /\ UpToEnd) => (SinkTest <=> ~IsEnd(stream, it, Len(stream)))

\* C29 witness: a join cursor moved through the two rows of its only left
\* element to the end, where the test is false.
C29_Witness ==
    /\ pc = "cursor"
    /\ UpToEnd
    /\ Top.kind = "joined"
    /\ Len(result) = 2
    /\ result[1].op = "next" /\ result[2].op = "next"
    /\ IsEnd(stream, it, Len(stream))
    /\ ~SinkTest
    /\ Len(input) = 1

\* The cursor of a KV-join stream in the client's hands.
JoinCursor == it[1]
IsJoinCursor == pc = "cursor" /\ Top.kind = "joined"

\* The right values stored for a key.
RightValues(key) ==
    IF key \in DOMAIN Top.right_map THEN Top.right_map[key] ELSE <<>>

\* The left element the join cursor stands on.
CurrentLeft == Deref(Top.left, JoinCursor.left_it, env, Len(Top.left)).v

\* C30: a KV-join cursor that is not at end caches the right values stored
\* for the key of its current left element, with the right index 0 when
\* there are none and below their number otherwise; at end its right
\* index is 0.
C30_JoinCursorInv ==
    IsJoinCursor =>
        IF IsEnd(stream, it, Len(stream))
        THEN JoinCursor.current_right_index = 0
        ELSE /\ JoinCursor.current_rights = RightValues(CurrentLeft.key)
             /\ (JoinCursor.current_rights = <<>> =>
                    JoinCursor.current_right_index = 0)
             /\ (JoinCursor.current_rights # <<>> =>
                    JoinCursor.current_right_index < Len(JoinCursor.current_rights))

\* C30 as long as ++ is not called on a cursor at end.
C30_UpToEnd == UpToEnd => C30_JoinCursorInv


\* ------------------------------------------------ path cursor of OpenFiles
\* path_it of the file cursor: the cursor of the upstream path stream, whose
\* index counts its ++, and the positions operator* was called at.
PathCursor == it[1]
PathsTaken == env.reads

\* 0, 1, ..., n - 1
UpTo(n) == [i \in 1..n |-> i - 1]

\* The path cursor had reported end before its last ++.
AdvancedAtEnd == PathCursor.index > Len(input) /\ PathCursor.index > 1

\* C31: each path of the upstream stream is taken exactly once: between
\* calls the path cursor has been advanced once for every path handled,
\* whatever the file gave, and never after it reported end.
C31_PathCursorOnce ==
    HasCursor =>
        /\ PathsTaken = UpTo(PathCursor.index)
        /\ ~AdvancedAtEnd

\* C31 on files that each have a line and no empty line, in a build that
\* survives the null path_end: one ++ per path, none at end.
C31_GoodFiles ==
    (HasCursor /\ GoodFiles /\ input # <<>> /\ ~ub.crash) =>
        /\ PathsTaken = UpTo(PathCursor.index)
        /\ PathCursor.index <= Len(input)


\* ------------------------------------------------------------ operator==
\* VectorIterator::operator==: return operator!=(other)
VectorEqual(a, b) == VectorNotEqual(a, b)

\* operator== of two stage-n iterators of the same stream: every iterator
\* but the vector's returns !(*this != other), its own operator!=.
Equal(s, a, b, n) ==
    CASE s[n].kind = "vec" -> VectorEqual(a[n], b[n])
      [] s[n].kind = "dir" -> ~NotEqual(s, a, b, n)
      [] s[n].kind = "aggregated" -> ~NotEqual(s, a, b, n)
      [] s[n].kind = "joined" -> ~NotEqual(s, a, b, n)
      [] s[n].kind = "filter" -> ~NotEqual(s, a, b, n)
      [] s[n].kind = "transform" -> ~NotEqual(s, a, b, n)
      [] s[n].kind = "split" -> ~NotEqual(s, a, b, n)
      [] s[n].kind = "files" -> ~NotEqual(s, a, b, n)

\* ------------------------------ specification: a client comparing cursors
\* A client that holds the begin cursor of a stream and end_ptr() of the
\* same stream, advances the first, and asks *a == *b and *a != *b of the
\* two in either order, and of the end cursor and itself.
Sides == {"it_end", "end_it", "end_end"}

CompareLeft(side) ==
    IF side = "it_end" THEN it ELSE EndCursor(stream, Len(stream))

CompareRight(side) ==
    IF side = "end_it" THEN it ELSE EndCursor(stream, Len(stream))

\* The client notes both answers.
Compared(side, a, b) ==
    result' = Append(result,
                     [op |-> "compare",
                      at_end |-> IsEnd(stream, it, Len(stream)),
                      outcome |-> "returned",
                      side |-> side,
                      eq |-> Equal(stream, a, b, Len(stream)),
                      ne |-> NotEqual(stream, a, b, Len(stream))])

\* *a == *b; *a != *b
CursorCompare ==
    /\ pc = "cursor"
    /\ Len(result) < MaxCalls
    /\ \E side \in Sides : Compared(side, CompareLeft(side), CompareRight(side))
    /\ UNCHANGED <<stream, pipeline, applied, right, ub, mm_front, it, env, input, pc, out, parts>>

NextCompare ==
    PipeFilter \/ PipeTransform \/ PipeSplit \/ PipeOpenFiles \/ PipeAggregate
    \/ PipeJoinKV \/ CursorBegin \/ CursorNext \/ CursorCompare

SpecCompare == InitCursor /\ [][NextCompare]_vars

\* C32: for every stream kind and every pair of cursors of that kind,
\* a == b holds exactly when a != b does not.
C32_EqualNegatesNotEqual ==
    \A i \in DOMAIN result :
        result[i].op = "compare" => (result[i].eq <=> ~result[i].ne)

\* C32 for the cursors of every stream but the in-memory one: directory,
\* file-content, filter, transform, split, aggregate and join cursors.
C32_DerivedKinds ==
    (stream # <<>> /\ Top.kind # "vec") =>
        \A i \in DOMAIN result :
            result[i].op = "compare" => (result[i].eq <=> ~result[i].ne)
====
